---- MODULE Spec2Model ----
(***************************************************************************)
(* The eslint/prefer-const rule of oxc_linter                              *)
(* (crates/oxc_linter/src/rules/eslint/prefer_const.rs).                   *)
(*                                                                         *)
(* The rule object is built from a JSON configuration value by             *)
(* from_configuration, and the linter then calls run on an AST node.  run  *)
(* pushes diagnostics into the lint context.  The AST node together with   *)
(* the accesses the semantic analysis resolved for every bound name is the *)
(* input of run.                                                           *)
(***************************************************************************)
EXTENDS Integers, Sequences, FiniteSets

VARIABLES value, options, node, diagnostics, fixes, pc

vars == <<value, options, node, diagnostics, fixes, pc>>

(***************************************************************************)
(* Bounds of the inputs.                                                   *)
(***************************************************************************)
\* declarators in one declaration statement
MaxDeclarators == 2
\* names bound by one declaration statement, over all its declarators
MaxBoundNames == 3
\* programmer-authored writes to one name that are told apart
MaxWrites == 2

(***************************************************************************)
(* Program constants.                                                      *)
(***************************************************************************)
\* Span::new(dec.span.start, dec.span.start + 3)
LabelLen == 3
\* a declaration in the head of a loop starts after "for (" (test cases)
ForHeadOffset == 5

(***************************************************************************)
(* The configuration value (serde_json::Value) handed to the rule.         *)
(* A JSON object is modelled by its two keys of interest; "absent" stands  *)
(* for a missing key, "bogus" for a string that is no policy name,         *)
(* "non_string" / "non_bool" for a value of another JSON type.             *)
(***************************************************************************)
DestructuringValues == {"absent", "all", "any", "bogus", "non_string"}

IgnoreValues == {"absent", "true", "false", "non_bool"}

JsonObjects == [destructuring : DestructuringValues,
                ignoreReadBeforeAssign : IgnoreValues]

NoObject == [destructuring |-> "absent", ignoreReadBeforeAssign |-> "absent"]

\* null (no configuration), [] , [ {..} ] (the form the tests and eslint
\* use) and a bare object {..}
JsonValues ==
    {[type |-> "null", obj |-> NoObject], [type |-> "array_empty", obj |-> NoObject]}
    \cup [type : {"array", "object"}, obj : JsonObjects]

\* the value once from_configuration, which takes it by value, has consumed it
Moved == [type |-> "moved", obj |-> NoObject]

\* enum Destructuring
Destructuring == {"All", "Any"}

\* struct PreferConstOptions
PreferConstOptions == [destructuring : Destructuring,
                       ignore_read_before_assign : BOOLEAN]

\* impl Default for PreferConstOptions
PreferConstOptionsDefault ==
    [destructuring |-> "Any", ignore_read_before_assign |-> FALSE]

\* the rule before from_configuration has built it
NoOptions == [destructuring |-> "unset", ignore_read_before_assign |-> FALSE]

\* serde_json::Value::as_object: Some only for a JSON object
as_object(v) == v.type = "object"

\* fn from_configuration(value) -> Self
from_configuration(v) ==
    IF as_object(v)
    THEN [destructuring |->
              IF v.obj.destructuring # "absent"
              THEN (IF v.obj.destructuring = "all" THEN "All" ELSE "Any")
              ELSE PreferConstOptionsDefault.destructuring,
          ignore_read_before_assign |->
              IF v.obj.ignoreReadBeforeAssign # "absent"
              THEN v.obj.ignoreReadBeforeAssign = "true"
              ELSE PreferConstOptionsDefault.ignore_read_before_assign]
    ELSE PreferConstOptionsDefault

(***************************************************************************)
(* The AST node and the resolved accesses of its bound names.              *)
(***************************************************************************)
\* where the one write of a name with exactly one write lies
Reach == {"unconditional", "conditional", "cross_scope"}

\* a bound name with the writes the semantic analysis resolved for it
\* (symbol_references); the reach is recorded for a sole write only
BoundNames ==
    {n \in [writes : 0..MaxWrites, reach : Reach] :
        n.writes # 1 => n.reach = "unconditional"}

\* BindingPatternKind of a declarator's id
PatternKinds == {"BindingIdentifier", "ObjectPattern", "ArrayPattern"}

\* VariableDeclarationKind
Kinds == {"var", "let", "const"}

\* where a declaration stands: a statement of its own, or the head of a
\* for-in / for-of loop
Positions == {"statement", "for_in", "for_of"}

\* the shape of one declarator: the kind of its pattern, how many names
\* the pattern binds, whether it has an initializer
Shapes ==
    {sh \in [kind : PatternKinds, count : 1..MaxBoundNames, init : BOOLEAN] :
        sh.kind = "BindingIdentifier" => sh.count = 1}

RECURSIVE Count(_, _)
\* the names bound by the first i declarators of a layout
Count(l, i) == IF i = 0 THEN 0 ELSE l[i].count + Count(l, i - 1)

\* the shapes of the declarators of one declaration
Layouts ==
    UNION {{l \in [1..k -> Shapes] : Count(l, k) <= MaxBoundNames} :
            k \in 1..MaxDeclarators}

\* dec.declarations: the declarators of layout l over the names ns
Declarations(l, ns) ==
    [i \in 1..Len(l) |->
        [id |-> [kind |-> l[i].kind,
                 names |-> SubSeq(ns, Count(l, i - 1) + 1, Count(l, i))],
         init |-> l[i].init]]

\* AstKind::VariableDeclaration.  loop_target says that the first
\* declarator is the control variable of a later for-in/for-of loop
\* (let x; for (x of xs) ..); in the head of a loop the names are the
\* control variables and their writes are the writes in the loop body.
\* read_before says that the name of the first declarator is read inside a
\* function that stands before the write of the name
\* (let x; function foo() { bar(x); } x = 0;)
Declaration(kind, position, loop_target, read_before, l, ns) ==
    [type |-> "VariableDeclaration", kind |-> kind, position |-> position,
     loop_target |-> loop_target, read_before |-> read_before,
     declarations |-> Declarations(l, ns)]

\* what the parser accepts of a declaration with layout l: a destructuring
\* pattern of a statement has an initializer; the head of a for-in/for-of
\* loop has one declarator without initializer; a control variable declared
\* before its loop is a plain identifier without initializer, and so is
\* the name read in a function before its write.  A plain identifier may
\* lack its initializer under every qualifier (declare const a, b: T; in
\* a TypeScript file)
WellFormed(position, loop_target, read_before, l) ==
    IF position = "statement"
    THEN /\ \A i \in 1..Len(l) : l[i].kind # "BindingIdentifier" => l[i].init
         /\ (loop_target \/ read_before) => /\ l[1].kind = "BindingIdentifier"
                                            /\ ~l[1].init
         /\ ~(loop_target /\ read_before)
    ELSE /\ Len(l) = 1
         /\ ~l[1].init
         /\ ~loop_target
         /\ ~read_before

\* a node of another AstKind
OtherNode ==
    [type |-> "Other", kind |-> "let", position |-> "statement",
     loop_target |-> FALSE, read_before |-> FALSE, declarations |-> <<>>]

\* no node visited yet
NoNode ==
    [type |-> "None", kind |-> "let", position |-> "statement",
     loop_target |-> FALSE, read_before |-> FALSE, declarations |-> <<>>]

\* dec.span.start: a statement starts its text, a loop head follows "for ("
SpanStart(n) == IF n.position = "statement" THEN 0 ELSE ForHeadOffset

\* OxcDiagnostic::warn(..).with_label(Span::new(start, start + 3))
Warning(n) ==
    [message |-> "Variable is never reassigned, use const instead.",
     label |-> [start |-> SpanStart(n), end |-> SpanStart(n) + LabelLen]]

\* dec.declarations.iter().filter(|declaration| declaration.init is None)
filtered_declarations(dec) == SelectSeq(dec.declarations, LAMBDA d : ~d.init)

\* run without the test of line 94 that leaves const declarations alone
run_without_const_test(self, n) ==
    IF n.type # "VariableDeclaration" THEN {}
    ELSE LET init_declaration == n.declarations[1]
         IN  IF init_declaration.id.kind # "BindingIdentifier" THEN {}
             ELSE IF Len(filtered_declarations(n)) > 1
                  THEN {Warning(n)}
                  ELSE {}

\* fn run(&self, node, ctx): the diagnostics it hands to ctx.diagnostic.
\* symbol_id is Some for every binding once the semantic analysis has run,
\* so symbol_id.unwrap() does not panic; the references it fetches are not
\* used.  self (the options) is not read.
run(self, n) ==
    IF n.type # "VariableDeclaration" THEN {}
    ELSE IF n.kind = "const" THEN {}
    ELSE LET init_declaration == n.declarations[1]
         IN  IF init_declaration.id.kind # "BindingIdentifier" THEN {}
             ELSE IF Len(filtered_declarations(n)) > 1
                  THEN {Warning(n)}
                  ELSE {}

\* the fixes run hands to the context: it calls ctx.diagnostic only, never
\* a diagnostic with a fix
run_fixes(self, n) == {}

(***************************************************************************)
(* The state machine: the rule is configured, then run visits a node.      *)
(***************************************************************************)
Init ==
    /\ value \in JsonValues
    /\ options = NoOptions
    /\ node = NoNode
    /\ diagnostics = {}
    /\ fixes = {}
    /\ pc = "configure"

\* Rule::from_configuration
FromConfiguration ==
    /\ pc = "configure"
    /\ options' = from_configuration(value)
    /\ value' = Moved
    /\ pc' = "lint"
    /\ UNCHANGED <<node, diagnostics, fixes>>

\* Rule::run on node n
Run(n) ==
    /\ pc = "lint"
    /\ node' = n
    /\ diagnostics' = run(options, n)
    /\ fixes' = run_fixes(options, n)
    /\ pc' = "done"
    /\ UNCHANGED <<value, options>>

\* the linter visits a variable declaration
VisitDeclaration ==
    /\ pc = "lint"
    /\ \E kind \in Kinds, position \in Positions, loop_target \in BOOLEAN,
          read_before \in BOOLEAN, l \in Layouts :
            /\ WellFormed(position, loop_target, read_before, l)
            /\ \E ns \in [1..Count(l, Len(l)) -> BoundNames] :
                    Run(Declaration(kind, position, loop_target, read_before,
                                    l, ns))

\* the linter visits a node of another kind
VisitOther == Run(OtherNode)

(***************************************************************************)
(* The verdicts the specification asks for (spec.md 4.3 to 4.5).  run      *)
(* computes none of them; the properties below compare what run reports    *)
(* with them.                                                              *)
(***************************************************************************)
\* 4.3: the name is reassigned
Reassigned(n, init, ignore) ==
    \/ n.writes >= 2
    \/ n.writes = 1 /\ init
    \/ n.writes = 1 /\ ~init /\ n.reach = "conditional"
    \/ n.writes = 1 /\ n.reach = "cross_scope" /\ ~ignore

\* 4.3 and 8 (single-write threshold): a name with an initializer is
\* eligible iff it is not reassigned; a name without one iff it has exactly
\* one write and is not reassigned
NameEligible(n, init, ignore) ==
    /\ ~Reassigned(n, init, ignore)
    /\ init \/ n.writes = 1

\* 4.4: the verdict of a declarator under the destructuring policy
DeclaratorEligible(d, opts) ==
    LET ok(i) == NameEligible(d.id.names[i], d.init, opts.ignore_read_before_assign)
        idx == 1..Len(d.id.names)
    IN  IF d.id.kind = "BindingIdentifier" THEN ok(1)
        ELSE IF opts.destructuring = "All" THEN \A i \in idx : ok(i)
        ELSE \E i \in idx : ok(i)

\* 4.5: shouldWarn
ShouldWarn(n, opts) ==
    \E i \in 1..Len(n.declarations) : DeclaratorEligible(n.declarations[i], opts)

\* 4.5: fixable
Fixable(n, opts) ==
    \A i \in 1..Len(n.declarations) : DeclaratorEligible(n.declarations[i], opts)

\* 4.5: the planned rewrite, the qualifier keyword replaced by const
KeywordFix(n) ==
    [span |-> [start |-> SpanStart(n),
               end |-> SpanStart(n) + (IF n.kind = "const" THEN 5 ELSE 3)],
     content |-> "const"]

(***************************************************************************)
(* The planned rewrite applied, and the rule run on the result (spec.md 8, *)
(* idempotence of fix).                                                    *)
(***************************************************************************)
\* the statements the planner rewrites: the fixable ones of 4.5, and the
\* head of a for-in/for-of loop none of whose names is written in the body
FixPlanned(n, opts) ==
    /\ n.type = "VariableDeclaration"
    /\ n.kind # "const"
    /\ IF n.position = "statement"
       THEN Fixable(n, opts)
       ELSE \A i \in 1..Len(n.declarations[1].id.names) :
                n.declarations[1].id.names[i].writes = 0

\* the statement with its qualifier keyword replaced by const
Rewritten(n) == [n EXCEPT !.kind = "const"]

\* the host applies the planned rewrite to the visited statement and the
\* linter visits the rewritten statement: Rule::run once more
RunAgain ==
    /\ pc = "done"
    /\ FixPlanned(node, options)
    /\ node' = Rewritten(node)
    /\ diagnostics' = run(options, Rewritten(node))
    /\ fixes' = run_fixes(options, Rewritten(node))
    /\ pc' = "again"
    /\ UNCHANGED <<value, options>>

Next == FromConfiguration \/ VisitDeclaration \/ VisitOther \/ RunAgain

Spec == Init /\ [][Next]_vars

\* run has visited a declaration statement that is no control variable's
\* and none of whose names is read in a function before its write
VisitedStatement ==
    /\ pc = "done"
    /\ node.type = "VariableDeclaration"
    /\ node.position = "statement"
    /\ ~node.loop_target
    /\ ~node.read_before

\* every declarator of the visited declaration is a plain identifier
AllPlain ==
    \A i \in 1..Len(node.declarations) :
        node.declarations[i].id.kind = "BindingIdentifier"

Reported == diagnostics # {}

(***************************************************************************)
(* The claims.                                                             *)
(***************************************************************************)
\* C1: for a declaration whose qualifier is not const, run emits a
\* diagnostic if and only if at least one declarator of the statement is
\* eligible; a statement with no eligible declarator gets no diagnostic.
\* Stated for let, the qualifier every test of the rule declares with.
C1_ReportIffSomeDeclaratorEligible ==
    (VisitedStatement /\ node.kind = "let")
        => (Reported <=> ShouldWarn(node, options))

\* C2: a let declaration whose declarators are all plain identifiers with
\* an initializer, and none of whose names is written afterwards, is
\* reported, and the fix replaces exactly the qualifier keyword by const.
C2_InitializedNeverWrittenIsFixed ==
    (/\ VisitedStatement
     /\ node.kind = "let"
     /\ AllPlain
     /\ \A i \in 1..Len(node.declarations) :
            /\ node.declarations[i].init
            /\ node.declarations[i].id.names[1].writes = 0)
        => (Reported /\ fixes = {KeywordFix(node)})

\* C3: a plain identifier declared without initializer is eligible, and its
\* statement reported, if and only if the name has exactly one write, the
\* write is unconditional, and it is not cross-scope (cross-scope being
\* tolerated when ignoreReadBeforeAssign is set): let x; x = 0; is reported.
C3_SingleWriteThreshold ==
    (/\ VisitedStatement
     /\ node.kind = "let"
     /\ Len(node.declarations) = 1
     /\ AllPlain
     /\ ~node.declarations[1].init)
        => LET x == node.declarations[1].id.names[1]
           IN  Reported <=>
                   /\ x.writes = 1
                   /\ \/ x.reach = "unconditional"
                      \/ x.reach = "cross_scope" /\ options.ignore_read_before_assign

\* C4: a let declaration without initializers, each of whose names has its
\* only write inside a conditional branch, gets no diagnostic, with one
\* declarator or with several.
C4_ConditionalWriteNotReported ==
    (/\ VisitedStatement
     /\ node.kind = "let"
     /\ AllPlain
     /\ \A i \in 1..Len(node.declarations) :
            /\ ~node.declarations[i].init
            /\ node.declarations[i].id.names[1].writes = 1
            /\ node.declarations[i].id.names[1].reach = "conditional")
        => ~Reported

\* C5: a declaration of plain identifiers, each of which has two or more
\* writes, or one write in addition to its initializer, is not reported;
\* the initializer itself is no write.
C5_ReassignedNotReported ==
    (/\ VisitedStatement
     /\ node.kind = "let"
     /\ AllPlain
     /\ \A i \in 1..Len(node.declarations) :
            \/ node.declarations[i].id.names[1].writes >= 2
            \/ /\ node.declarations[i].id.names[1].writes = 1
               /\ node.declarations[i].init)
        => ~Reported

\* C6: a statement is fixable if and only if every declarator is eligible;
\* when only some are, the diagnostic is reported and no fix is produced.
\* Stated for statements whose declarators all have an initializer: of
\* let x; x = 0; section 8 says that it is reported and not fixable.
C6_FixableIffAllEligible ==
    (/\ VisitedStatement
     /\ node.kind = "let"
     /\ \A i \in 1..Len(node.declarations) : node.declarations[i].init)
        => /\ (fixes # {}) <=> Fixable(node, options)
           /\ (ShouldWarn(node, options) /\ ~Fixable(node, options))
                => (Reported /\ fixes = {})

\* C7: under the destructuring policy all, a destructured declarator is
\* eligible, and its statement reported, if and only if every name it
\* binds is eligible.
C7_PolicyAll ==
    (/\ VisitedStatement
     /\ node.kind = "let"
     /\ options.destructuring = "All"
     /\ Len(node.declarations) = 1
     /\ ~AllPlain)
        => LET d == node.declarations[1]
           IN  Reported <=>
                   \A i \in 1..Len(d.id.names) :
                       NameEligible(d.id.names[i], d.init,
                                    options.ignore_read_before_assign)

\* C8: under the destructuring policy any, the default, a destructured
\* declarator is eligible, and its statement reported, if and only if at
\* least one name it binds is eligible.
C8_PolicyAny ==
    (/\ VisitedStatement
     /\ node.kind = "let"
     /\ options.destructuring = "Any"
     /\ Len(node.declarations) = 1
     /\ ~AllPlain)
        => LET d == node.declarations[1]
           IN  Reported <=>
                   \E i \in 1..Len(d.id.names) :
                       NameEligible(d.id.names[i], d.init,
                                    options.ignore_read_before_assign)

\* C9: a for-in/for-of control variable with no further write in the loop
\* body is never reported: neither the declaration in the head of the loop
\* nor, when nothing else in it is eligible, the statement that declares
\* the control variable before the loop.
C9_LoopControlVariableNotReported ==
    (/\ pc = "done"
     /\ node.type = "VariableDeclaration"
     /\ node.kind = "let"
     /\ \/ /\ node.position # "statement"
           /\ \A i \in 1..Len(node.declarations[1].id.names) :
                  node.declarations[1].id.names[i].writes = 0
        \/ /\ node.loop_target
           /\ node.declarations[1].id.names[1].writes = 0
           /\ \A i \in 2..Len(node.declarations) :
                  ~DeclaratorEligible(node.declarations[i], options))
        => ~Reported

\* C10: a let control variable declared in the head of a for-in/for-of loop
\* and only read in the body is reported, and the fix rewrites let to const.
C10_LoopHeadLetIsFixed ==
    (/\ pc = "done"
     /\ node.type = "VariableDeclaration"
     /\ node.position # "statement"
     /\ node.kind = "let"
     /\ node.declarations[1].id.kind = "BindingIdentifier"
     /\ node.declarations[1].id.names[1].writes = 0)
        => (Reported /\ fixes = {KeywordFix(node)})

\* C11: a declaration whose qualifier is const never produces a diagnostic,
\* be it visited as written or be it a statement whose planned keyword
\* rewrite was applied and which run visits again (the fix is idempotent).
C11_ConstNeverReported ==
    (/\ pc \in {"done", "again"}
     /\ node.type = "VariableDeclaration"
     /\ node.kind = "const")
        => ~Reported

\* C11, its case: the rewrite of a statement with several declarators was
\* applied and run has visited the rewritten statement
C11_RewrittenVisitedAgain ==
    /\ pc = "again"
    /\ node.kind = "const"
    /\ Len(node.declarations) > 1
    /\ ~Reported

\* C12: a let declared without initializer, read inside a function that
\* stands before its single write (let x; function foo() { bar(x); }
\* x = 0;), is reported when ignoreReadBeforeAssign is false, the default,
\* and is not reported when it is true.
C12_ReadBeforeAssign ==
    (/\ pc = "done"
     /\ node.type = "VariableDeclaration"
     /\ node.kind = "let"
     /\ node.read_before
     /\ Len(node.declarations) = 1
     /\ node.declarations[1].id.names[1].writes = 1
     /\ node.declarations[1].id.names[1].reach = "unconditional")
        => (Reported <=> ~options.ignore_read_before_assign)

====
